---- MODULE Spec2Model ----
(***************************************************************************)
(* A model of scripts/run_crawl_docs.py: the crawl loop of crawl_site     *)
(* (frontier `queue`, visited set `seen`, name registry `used_names`)     *)
(* around the external fetch primitive crawler.arun, and the pure helpers *)
(* _sanitize_filename, _extract_title and _get_markdown.                  *)
(*                                                                         *)
(* Text is a sequence of one-character strings.  A URL string is held as  *)
(* the components urlparse splits it into (scheme, netloc, path,          *)
(* fragment; params and query are always empty here), and urlunparse      *)
(* builds the text back where the code uses the URL as text.              *)
(***************************************************************************)
EXTENDS Integers, Sequences, FiniteSets, TLC

VARIABLES
    pc,            \* position of the crawl_site coroutine
    start_url,     \* argument start_url
    max_pages,     \* argument max_pages: {} is None, {n} is the integer n
    base_netloc,   \* local base_netloc
    seen,          \* local seen (a set of URLs)
    queue,         \* local queue (a deque of URLs)
    used_names,    \* local used_names (dict: base name -> count)
    current,       \* local current, the URL handed to crawler.arun
    files,         \* the output directory (dict: filename -> content)
    dir_created,   \* os.makedirs has run
    crawler_open,  \* inside `async with AsyncWebCrawler()`
    log,           \* lines printed to standard output
    fetched,       \* history: the URLs passed to crawler.arun, in order
    written,       \* history: one record per open(out_path, "w") + write
    result_url,    \* result.url of the result being processed
    name_in,       \* argument of a call of _sanitize_filename
    name_out,      \* its result
    name_again,    \* the result of _sanitize_filename(name_out)
    title_args,    \* arguments of a call of _extract_title
    title_out,     \* its result
    link_args,     \* lines 86-99 on their own: the queue, seen, result.url
                   \* and internal_links they start from
    link_out,      \* the queue they end with
    site,          \* a fixed site: the internal links each page reports
    discovered     \* history: the URLs put in the queue, in the order of
                   \* their first append

vars == << pc, start_url, max_pages, base_netloc, seen, queue, used_names,
           current, files, dir_created, crawler_open, log, fetched, written,
           result_url, name_in, name_out, name_again,
                    title_args, title_out, link_args, link_out, site,
                    discovered >>

-----------------------------------------------------------------------------
(* Bounds of the model *)

\* the largest --max-pages value tried (None is tried too)
MaxPagesArg == 1
\* the largest number of link records a fetched page reports
MaxLinks == 2
\* the longest tail put after the padding of a long name
MaxTail == 3

-----------------------------------------------------------------------------
(* Text helpers *)

Min(a, b) == IF a < b THEN a ELSE b

\* characters str.strip() removes and the regex class \s matches
Whitespace == {" ", "\t", "\n"}

\* the characters of the class [\\/:*?"<>|]
Forbidden == {"\\", "/", ":", "*", "?", "\"", "<", ">", "|"}

RECURSIVE LStrip(_)
LStrip(s) ==
    IF s = << >> THEN << >>
    ELSE IF Head(s) \in Whitespace THEN LStrip(Tail(s)) ELSE s

RECURSIVE RStrip(_)
RStrip(s) ==
    IF s = << >> THEN << >>
    ELSE IF s[Len(s)] \in Whitespace THEN RStrip(SubSeq(s, 1, Len(s) - 1))
    ELSE s

\* str.strip()
Strip(s) == RStrip(LStrip(s))

\* re.sub(r"[\\/:*?\"<>|]", "-", name)
ReplaceForbidden(s) ==
    [i \in 1..Len(s) |-> IF s[i] \in Forbidden THEN "-" ELSE s[i]]

\* re.sub(r"\s+", " ", name): the first character of a whitespace run
\* becomes a space and the rest of the run goes
CollapseWs(s) ==
    LET marked == [i \in 1..Len(s) |->
                      IF s[i] \notin Whitespace THEN s[i]
                      ELSE IF i > 1 /\ s[i - 1] \in Whitespace THEN "drop"
                      ELSE " "]
    IN  SelectSeq(marked, LAMBDA c : c # "drop")

\* the slice limit of name[:120]
MaxNameLen == 120

Untitled == << "u", "n", "t", "i", "t", "l", "e", "d" >>

\* a slice that keeps one character too many
TruncateOneMore(s) == SubSeq(s, 1, Min(Len(s), MaxNameLen + 1))

\* name[:120]
Truncate(s) == SubSeq(s, 1, Min(Len(s), MaxNameLen))

\* _sanitize_filename
SanitizeFilename(name) ==
    LET stripped == Strip(name) IN
    IF stripped = << >> THEN Untitled
    ELSE Truncate(Strip(CollapseWs(ReplaceForbidden(stripped))))

-----------------------------------------------------------------------------
(* URLs *)

Url(s, n, p, f) == [scheme |-> s, netloc |-> n, path |-> p, fragment |-> f]

\* the empty string as a URL reference (and a link record without an href)
EmptyHref == Url("", "", << >>, "")

\* the text of the scheme, netloc and fragment values used here
Chars(a) ==
    CASE a = "http"   -> << "h", "t", "t", "p" >>
      [] a = "ftp"    -> << "f", "t", "p" >>
      [] a = "mailto" -> << "m", "a", "i", "l", "t", "o" >>
      [] a = "a.com"  -> << "a", ".", "c", "o", "m" >>
      [] a = "b.com"  -> << "b", ".", "c", "o", "m" >>
      [] a = "s"      -> << "s" >>
      [] OTHER        -> << >>

\* urllib.parse.uses_relative and uses_netloc, restricted to the schemes used
UsesRelative == {"", "http", "ftp"}
UsesNetloc == {"", "http", "ftp"}

\* a urldefrag that returns the URL as given
UrldefragKeepsFragment(u) == u

\* urllib.parse.urldefrag(url).url: the URL without its fragment
Urldefrag(u) == [u EXCEPT !.fragment = ""]

\* the part of a base path up to and including its last "/"
RECURSIVE DirOf(_)
DirOf(p) ==
    IF p = << >> THEN << >>
    ELSE IF p[Len(p)] = "/" THEN p ELSE DirOf(SubSeq(p, 1, Len(p) - 1))

\* urllib.parse.urljoin(base, url) for non-empty base and url without dot
\* segments: a reference with its own scheme outside the base's, or its own
\* netloc, is kept; an empty path takes the base's; a relative path is merged
Urljoin(base, ref) ==
    LET scheme == IF ref.scheme = "" THEN base.scheme ELSE ref.scheme IN
    IF scheme # base.scheme \/ scheme \notin UsesRelative THEN ref
    ELSE IF scheme \in UsesNetloc /\ ref.netloc # ""
         THEN Url(scheme, ref.netloc, ref.path, ref.fragment)
    ELSE IF ref.path = << >>
         THEN Url(scheme, base.netloc, base.path, ref.fragment)
    ELSE IF Head(ref.path) = "/"
         THEN Url(scheme, base.netloc, ref.path, ref.fragment)
    ELSE Url(scheme, base.netloc,
             (IF DirOf(base.path) = << >> THEN << "/" >> ELSE DirOf(base.path))
                 \o ref.path,
             ref.fragment)

\* urllib.parse.urlunparse: the URL as text
Urlunparse(u) ==
    (IF u.scheme # "" THEN Chars(u.scheme) \o << ":" >> ELSE << >>)
    \o (IF u.netloc # "" THEN << "/", "/" >> \o Chars(u.netloc) ELSE << >>)
    \o u.path
    \o (IF u.fragment # "" THEN << "#" >> \o Chars(u.fragment) ELSE << >>)

-----------------------------------------------------------------------------
(* Title, Markdown body and filename *)

\* metadata: None, or a dict whose "title" is `title` (<< >>: no such key)
NoMeta == [none |-> TRUE, title |-> << >>]
Meta(t) == [none |-> FALSE, title |-> t]

\* html: the empty string, a document without a <title> element, or one whose
\* first <title[^>]*>(.*?)</title> match has the inner text `inner`
EmptyHtml == [empty |-> TRUE, titled |-> FALSE, inner |-> << >>]
HtmlNoTitle == [empty |-> FALSE, titled |-> FALSE, inner |-> << >>]
HtmlTitle(t) == [empty |-> FALSE, titled |-> TRUE, inner |-> t]

\* html.unescape, on text whose character references are single elements
Unescape(s) ==
    [i \in 1..Len(s) |->
        CASE s[i] = "&amp;"  -> "&"
          [] s[i] = "&lt;"   -> "<"
          [] s[i] = "&#32;"  -> " "
          [] OTHER           -> s[i]]

\* str.rstrip("/")
RECURSIVE RStripSlash(_)
RStripSlash(p) ==
    IF p = << >> THEN << >>
    ELSE IF p[Len(p)] = "/" THEN RStripSlash(SubSeq(p, 1, Len(p) - 1)) ELSE p

\* path.split("/")[-1]
RECURSIVE LastSegment(_)
LastSegment(p) ==
    IF p = << >> THEN << >>
    ELSE IF p[Len(p)] = "/" THEN << >>
    ELSE LastSegment(SubSeq(p, 1, Len(p) - 1)) \o << p[Len(p)] >>

\* a title selection that looks at the HTML before the metadata
ExtractTitleHtmlFirst(metadata, html, url) ==
    LET title == Strip(CollapseWs(Unescape(html.inner)))
        seg   == LastSegment(RStripSlash(url.path))
    IN  IF ~html.empty /\ html.titled /\ title # << >> THEN title
        ELSE IF ~metadata.none /\ metadata.title # << >> THEN metadata.title
        ELSE IF seg # << >> THEN seg
        ELSE Urlunparse(url)

\* _extract_title
ExtractTitle(metadata, html, url) ==
    LET title == Strip(CollapseWs(Unescape(html.inner)))
        seg   == LastSegment(RStripSlash(url.path))
    IN  IF ~metadata.none /\ metadata.title # << >> THEN metadata.title
        ELSE IF ~html.empty /\ html.titled /\ title # << >> THEN title
        ELSE IF seg # << >> THEN seg
        ELSE Urlunparse(url)

\* result.markdown: None, a str, or an object with raw_markdown (None or str)
MdNone == [kind |-> "none", text |-> "", raw_none |-> FALSE]
MdStr(t) == [kind |-> "str", text |-> t, raw_none |-> FALSE]
MdObj(t) == [kind |-> "obj", text |-> t, raw_none |-> FALSE]
MdObjNoRaw == [kind |-> "obj", text |-> "", raw_none |-> TRUE]

\* _get_markdown
GetMarkdown(markdown) ==
    IF markdown.kind = "none" THEN ""
    ELSE IF markdown.kind = "str" THEN markdown.text
    ELSE IF markdown.raw_none THEN "" ELSE markdown.text

\* str(n) for n >= 0
RECURSIVE ToStr(_)
ToStr(n) ==
    LET digit == << "0", "1", "2", "3", "4", "5", "6", "7", "8", "9" >> IN
    IF n < 10 THEN << digit[n + 1] >>
    ELSE ToStr(n \div 10) \o << digit[(n % 10) + 1] >>

DotMd == << ".", "m", "d" >>

\* used_names.get(base_name, 0)
DictGet(d, k, default) == IF k \in DOMAIN d THEN d[k] ELSE default

\* d[k] = v
DictSet(d, k, v) == [x \in (DOMAIN d) \cup {k} |-> IF x = k THEN v ELSE d[x]]

\* the suffix built from count, not count + 1
FilenameCountSuffix(base_name, count) ==
    IF count = 0 THEN base_name \o DotMd
    ELSE base_name \o << "-" >> \o ToStr(count) \o DotMd

\* f"{base_name}.md" if count == 0 else f"{base_name}-{count + 1}.md"
Filename(base_name, count) ==
    IF count = 0 THEN base_name \o DotMd
    ELSE base_name \o << "-" >> \o ToStr(count + 1) \o DotMd

-----------------------------------------------------------------------------
(* Link filtering *)

\* lines 88-99 without the netloc comparison of lines 96-97
EnqueueLinkAnyHost(q, visited, netloc, page_url, href) ==
    IF href = EmptyHref THEN q
    ELSE LET abs_url == Urldefrag(Urljoin(page_url, href)) IN
         IF abs_url.scheme \notin {"http", "https"} THEN q
         ELSE IF abs_url \notin visited THEN Append(q, abs_url)
         ELSE q

\* lines 88-99 without the urldefrag of line 92
EnqueueLinkKeepsFragment(q, visited, netloc, page_url, href) ==
    IF href = EmptyHref THEN q
    ELSE LET abs_url == Urljoin(page_url, href) IN
         IF abs_url.scheme \notin {"http", "https"} THEN q
         ELSE IF abs_url.netloc # netloc THEN q
         ELSE IF abs_url \notin visited THEN Append(q, abs_url)
         ELSE q

\* lines 88-99 without the membership test of line 98
EnqueueLinkNoSeenTest(q, visited, netloc, page_url, href) ==
    IF href = EmptyHref THEN q
    ELSE LET abs_url == Urldefrag(Urljoin(page_url, href)) IN
         IF abs_url.scheme \notin {"http", "https"} THEN q
         ELSE IF abs_url.netloc # netloc THEN q
         ELSE Append(q, abs_url)

\* lines 88-99 with appendleft for append
EnqueueLinkAtFront(q, visited, netloc, page_url, href) ==
    IF href = EmptyHref THEN q
    ELSE LET abs_url == Urldefrag(Urljoin(page_url, href)) IN
         IF abs_url.scheme \notin {"http", "https"} THEN q
         ELSE IF abs_url.netloc # netloc THEN q
         ELSE IF abs_url \notin visited THEN << abs_url >> \o q
         ELSE q

\* lines 88-99 for one link record: the queue after it
EnqueueLink(q, visited, netloc, page_url, href) ==
    IF href = EmptyHref THEN q
    ELSE LET abs_url == Urldefrag(Urljoin(page_url, href)) IN
         IF abs_url.scheme \notin {"http", "https"} THEN q
         ELSE IF abs_url.netloc # netloc THEN q
         ELSE IF abs_url \notin visited THEN Append(q, abs_url)
         ELSE q

\* the for loop of lines 87-99 over internal_links
RECURSIVE EnqueueLinks(_, _, _, _, _)
EnqueueLinks(q, visited, netloc, page_url, links) ==
    IF links = << >> THEN q
    ELSE EnqueueLinks(EnqueueLink(q, visited, netloc, page_url, Head(links)),
                      visited, netloc, page_url, Tail(links))

-----------------------------------------------------------------------------
(* Inputs: the arguments of crawl_site and what crawler.arun may return *)

PathA == << "/", "a" >>
PathB == << "/", "b" >>
TitleH == << "H" >>
TitleH2 == << "H", "-", "2" >>

\* http://a.com, http://a.com/a#s, and /a (a string without a host)
StartUrls ==
    { Url("http", "a.com", << >>, ""),
      Url("http", "a.com", PathA, "s"),
      Url("", "", PathA, "") }

\* None, or an integer
MaxPagesArgs == { {} } \cup { {n} : n \in 0..MaxPagesArg }

\* the href values of link records: http://a.com/a, http://a.com/a#s,
\* http://a.com/b, http://b.com/b, mailto:x, ftp://a.com/a, b, #s and none
Hrefs ==
    { Url("http", "a.com", PathA, ""),
      Url("http", "a.com", PathA, "s"),
      Url("http", "a.com", PathB, ""),
      Url("http", "b.com", PathB, ""),
      Url("mailto", "", << "x" >>, ""),
      Url("ftp", "a.com", PathA, ""),
      Url("", "", << "b" >>, ""),
      Url("", "", << >>, "s"),
      EmptyHref }

RECURSIVE SeqsUpTo(_, _)
SeqsUpTo(S, n) ==
    IF n = 0 THEN { << >> }
    ELSE LET shorter == SeqsUpTo(S, n - 1) IN
         shorter \cup { Append(q, x) : q \in shorter, x \in S }

\* result.links["internal"]: lists of at most MaxLinks link records
LinkLists == SeqsUpTo(Hrefs, MaxLinks)

\* result.url: the requested URL, or the URL a redirect to b.com ends at
ResultUrls(requested) ==
    { requested, Url("http", "b.com", requested.path, "") }

Metadatas == { NoMeta, Meta(TitleH), Meta(TitleH2) }
Htmls == { EmptyHtml, HtmlTitle(<< " ", "H", " " >>) }
Markdowns == { MdNone, MdStr("m1"), MdObj("m1"), MdObjNoRaw }
ErrorMessages == { "timeout" }

-----------------------------------------------------------------------------
(* crawl_site *)

NoUrl == EmptyHref
EmptyDict == << >>

\* values of the variables a specification does not use
NoTitleArgs == [metadata |-> NoMeta, html |-> EmptyHtml, url |-> NoUrl]
NoLinkArgs == [queue |-> << >>, seen |-> {}, url |-> NoUrl, links |-> << >>]
NoSite == << >>

Init ==
    /\ pc = "start"
    /\ start_url \in StartUrls
    /\ max_pages \in MaxPagesArgs
    /\ base_netloc = ""
    /\ seen = {}
    /\ queue = << >>
    /\ used_names = EmptyDict
    /\ current = NoUrl
    /\ files = EmptyDict
    /\ dir_created = FALSE
    /\ crawler_open = FALSE
    /\ log = << >>
    /\ fetched = << >>
    /\ written = << >>
    /\ result_url = NoUrl
    /\ name_in = << >>
    /\ name_out = << >>
    /\ name_again = << >>
    /\ title_args = NoTitleArgs
    /\ title_out = << >>
    /\ link_args = NoLinkArgs
    /\ link_out = << >>
    /\ site = NoSite
    /\ discovered = << >>

\* the netloc test placed after os.makedirs
RaiseAfterMakedirs ==
    /\ pc = "start"
    /\ start_url.netloc = ""
    /\ dir_created' = TRUE
    /\ pc' = "raised"
    /\ UNCHANGED << start_url, max_pages, base_netloc, seen, queue,
                    used_names, current, files, crawler_open, log, fetched,
                    written, result_url, name_in, name_out, name_again,
                    title_args, title_out, link_args, link_out, site,
                    discovered >>

\* lines 47-50: a start URL without a netloc raises ValueError
RaiseInvalid ==
    /\ pc = "start"
    /\ start_url.netloc = ""
    /\ pc' = "raised"
    /\ UNCHANGED << start_url, max_pages, base_netloc, seen, queue,
                    used_names, current, files, dir_created, crawler_open,
                    log, fetched, written, result_url, name_in, name_out,
                    name_again,
                    title_args, title_out, link_args, link_out, site,
                    discovered >>

\* a start that strips the start URL and puts it in seen as well
BeginSeedsSeen ==
    /\ pc = "start"
    /\ start_url.netloc # ""
    /\ base_netloc' = start_url.netloc
    /\ dir_created' = TRUE
    /\ seen' = { Urldefrag(start_url) }
    /\ queue' = << Urldefrag(start_url) >>
    /\ used_names' = EmptyDict
    /\ crawler_open' = TRUE
    /\ discovered' = << Urldefrag(start_url) >>
    /\ pc' = "loop"
    /\ UNCHANGED << start_url, max_pages, current, files, log, fetched,
                    written, result_url, name_in, name_out, name_again,
                    title_args, title_out, link_args, link_out, site >>

\* lines 47-60: makedirs, the empty seen set, the queue holding start_url as
\* given, the empty registry, and the crawler acquired
Begin ==
    /\ pc = "start"
    /\ start_url.netloc # ""
    /\ base_netloc' = start_url.netloc
    /\ dir_created' = TRUE
    /\ seen' = {}
    /\ queue' = << start_url >>
    /\ used_names' = EmptyDict
    /\ crawler_open' = TRUE
    /\ discovered' = << start_url >>
    /\ pc' = "loop"
    /\ UNCHANGED << start_url, max_pages, current, files, log, fetched,
                    written, result_url, name_in, name_out, name_again,
                    title_args, title_out, link_args, link_out, site >>

\* the cap test with > for >=
CapReachedOffByOne == \E n \in max_pages : Cardinality(seen) > n

\* line 62: max_pages is not None and len(seen) >= max_pages
CapReached == \E n \in max_pages : Cardinality(seen) >= n

\* line 61 with an empty queue: the loop and the `async with` block end
LoopEnd ==
    /\ pc = "loop"
    /\ queue = << >>
    /\ pc' = "done"
    /\ crawler_open' = FALSE
    /\ UNCHANGED << start_url, max_pages, base_netloc, seen, queue,
                    used_names, current, files, dir_created, log, fetched,
                    written, result_url, name_in, name_out, name_again,
                    title_args, title_out, link_args, link_out, site,
                    discovered >>

\* lines 62-63: break at the page cap
CapBreak ==
    /\ pc = "loop"
    /\ queue # << >>
    /\ CapReached
    /\ pc' = "done"
    /\ crawler_open' = FALSE
    /\ UNCHANGED << start_url, max_pages, base_netloc, seen, queue,
                    used_names, current, files, dir_created, log, fetched,
                    written, result_url, name_in, name_out, name_again,
                    title_args, title_out, link_args, link_out, site,
                    discovered >>

\* a membership test that never finds the URL
AlreadySeenNever(url) == FALSE

\* line 66: current in seen
AlreadySeen(url) == url \in seen

\* a skip that leaves the visited URL at the head of the queue
PopSeenKeepsHead ==
    /\ pc = "loop"
    /\ queue # << >>
    /\ ~CapReached
    /\ AlreadySeen(Urldefrag(Head(queue)))
    /\ current' = Urldefrag(Head(queue))
    /\ UNCHANGED << pc, start_url, max_pages, base_netloc, seen, queue,
                    used_names, files, dir_created, crawler_open, log,
                    fetched, written, result_url, name_in, name_out,
                    name_again, title_args, title_out, link_args, link_out,
                    site, discovered >>

\* lines 64-67: the head of the queue, without its fragment, is in seen
PopSeen ==
    /\ pc = "loop"
    /\ queue # << >>
    /\ ~CapReached
    /\ AlreadySeen(Urldefrag(Head(queue)))
    /\ queue' = Tail(queue)
    /\ current' = Urldefrag(Head(queue))
    /\ UNCHANGED << pc, start_url, max_pages, base_netloc, seen, used_names,
                    files, dir_created, crawler_open, log, fetched, written,
                    result_url, name_in, name_out, name_again,
                    title_args, title_out, link_args, link_out, site,
                    discovered >>

\* a pop() for the popleft(): the newest entry of the queue is taken
PopFetchFromRight ==
    /\ pc = "loop"
    /\ queue # << >>
    /\ ~CapReached
    /\ ~AlreadySeen(Urldefrag(queue[Len(queue)]))
    /\ queue' = SubSeq(queue, 1, Len(queue) - 1)
    /\ current' = Urldefrag(queue[Len(queue)])
    /\ seen' = seen \cup { Urldefrag(queue[Len(queue)]) }
    /\ fetched' = Append(fetched, Urldefrag(queue[Len(queue)]))
    /\ pc' = "await"
    /\ UNCHANGED << start_url, max_pages, base_netloc, used_names, files,
                    dir_created, crawler_open, log, written, result_url,
                    name_in, name_out, name_again, title_args, title_out,
                    link_args, link_out, site, discovered >>

\* lines 64-70: the head of the queue is new: it is added to seen and
\* crawler.arun is called with it
PopFetch ==
    /\ pc = "loop"
    /\ queue # << >>
    /\ ~CapReached
    /\ ~AlreadySeen(Urldefrag(Head(queue)))
    /\ queue' = Tail(queue)
    /\ current' = Urldefrag(Head(queue))
    /\ seen' = seen \cup { Urldefrag(Head(queue)) }
    /\ fetched' = Append(fetched, Urldefrag(Head(queue)))
    /\ pc' = "await"
    /\ UNCHANGED << start_url, max_pages, base_netloc, used_names, files,
                    dir_created, crawler_open, log, written, result_url,
                    name_in, name_out, name_again,
                    title_args, title_out, link_args, link_out, site,
                    discovered >>

\* a failure that puts the URL back for another try
FetchFailedRetries ==
    /\ pc = "await"
    /\ \E error_message \in ErrorMessages :
          log' = Append(log, [url |-> current, error |-> error_message])
    /\ queue' = Append(queue, current)
    /\ seen' = seen \ { current }
    /\ pc' = "loop"
    /\ UNCHANGED << start_url, max_pages, base_netloc, used_names, current,
                    files, dir_created, crawler_open, fetched, written,
                    result_url, name_in, name_out, name_again,
                    title_args, title_out, link_args, link_out, site,
                    discovered >>

\* lines 71-73: the result reports failure
FetchFailed ==
    /\ pc = "await"
    /\ \E error_message \in ErrorMessages :
          log' = Append(log, [url |-> current, error |-> error_message])
    /\ pc' = "loop"
    /\ UNCHANGED << start_url, max_pages, base_netloc, seen, queue,
                    used_names, current, files, dir_created, crawler_open,
                    fetched, written, result_url, name_in, name_out, name_again,
                    title_args, title_out, link_args, link_out, site,
                    discovered >>

\* lines 75-84 for a successful result drawn from the given values: its
\* Markdown body is written under the name the title and the registry give
FetchSucceededWith(urls, metadatas, htmls, markdowns) ==
    /\ pc = "await"
    /\ \E url \in urls, metadata \in metadatas, html \in htmls,
          markdown \in markdowns :
          LET md        == GetMarkdown(markdown)
              title     == ExtractTitle(metadata, html, url)
              base_name == SanitizeFilename(title)
              count     == DictGet(used_names, base_name, 0)
              filename  == Filename(base_name, count)
          IN  /\ used_names' = DictSet(used_names, base_name, count + 1)
              /\ files' = DictSet(files, filename, md)
              /\ written' = Append(written, [url |-> current,
                                             base_name |-> base_name,
                                             filename |-> filename,
                                             md |-> md])
              /\ result_url' = url
    /\ pc' = "links"
    /\ UNCHANGED << start_url, max_pages, base_netloc, seen, queue, current,
                    dir_created, crawler_open, log, fetched, name_in,
                    name_out, name_again, title_args, title_out, link_args,
                    link_out, site, discovered >>

\* lines 75-84: the result reports success
FetchSucceeded ==
    FetchSucceededWith(ResultUrls(current), Metadatas, Htmls, Markdowns)

\* the history of first appends after the URLs of `new` were appended
RECURSIVE NoteAppends(_, _)
NoteAppends(known, new) ==
    IF new = << >> THEN known
    ELSE NoteAppends(IF \E i \in 1..Len(known) : known[i] = Head(new)
                     THEN known ELSE Append(known, Head(new)),
                     Tail(new))

\* lines 86-99 for internal_links drawn from the given lists: the links are
\* filtered and appended
ExtractLinksFrom(link_lists) ==
    /\ pc = "links"
    /\ \E after \in { EnqueueLinks(queue, seen, base_netloc, result_url, l) :
                         l \in link_lists } :
          /\ queue' = after
          /\ discovered' =
                NoteAppends(discovered,
                            SubSeq(after, Len(queue) + 1, Len(after)))
    /\ pc' = "loop"
    /\ UNCHANGED << start_url, max_pages, base_netloc, seen, used_names,
                    current, files, dir_created, crawler_open, log, fetched,
                    written, result_url, name_in, name_out, name_again,
                    title_args, title_out, link_args, link_out, site >>

\* lines 86-99: the result's internal links are filtered and appended
ExtractLinks == ExtractLinksFrom(LinkLists)

Next ==
    \/ RaiseInvalid
    \/ Begin
    \/ LoopEnd
    \/ CapBreak
    \/ PopSeen
    \/ PopFetch
    \/ FetchFailed
    \/ FetchSucceeded
    \/ ExtractLinks

Spec == Init /\ [][Next]_vars

\* the fetch primitive always returns, and the coroutine runs on when it does
FairSpec == Spec /\ WF_vars(Next)

-----------------------------------------------------------------------------
(* _sanitize_filename on its own: called on a name, then on its own result *)

NameChars == { "a", " ", "/" }

\* k times the letter a
Pad(k) == [i \in 1..k |-> "a"]

\* no padding, or padding that ends just before or at the slice limit
PadLengths == { 0 } \cup ((MaxNameLen - MaxTail)..MaxNameLen)

\* names: at most one leading character, padding, and a tail
NameInputs ==
    { h \o Pad(k) \o t : h \in SeqsUpTo(NameChars, 1), k \in PadLengths,
                         t \in SeqsUpTo(NameChars, MaxTail) }

SanInit ==
    /\ pc = "pure"
    /\ name_in \in NameInputs
    /\ name_out = << >>
    /\ name_again = << >>
    /\ title_args = NoTitleArgs
    /\ title_out = << >>
    /\ link_args = NoLinkArgs
    /\ link_out = << >>
    /\ site = NoSite
    /\ discovered = << >>
    /\ start_url = NoUrl
    /\ max_pages = {}
    /\ base_netloc = ""
    /\ seen = {}
    /\ queue = << >>
    /\ used_names = EmptyDict
    /\ current = NoUrl
    /\ files = EmptyDict
    /\ dir_created = FALSE
    /\ crawler_open = FALSE
    /\ log = << >>
    /\ fetched = << >>
    /\ written = << >>
    /\ result_url = NoUrl

\* base_name = _sanitize_filename(name)
Sanitize ==
    /\ pc = "pure"
    /\ name_out' = SanitizeFilename(name_in)
    /\ pc' = "once"
    /\ UNCHANGED << start_url, max_pages, base_netloc, seen, queue,
                    used_names, current, files, dir_created, crawler_open,
                    log, fetched, written, result_url, name_in, name_again,
                    title_args, title_out, link_args, link_out, site,
                    discovered >>

\* _sanitize_filename(base_name)
Resanitize ==
    /\ pc = "once"
    /\ name_again' = SanitizeFilename(name_out)
    /\ pc' = "twice"
    /\ UNCHANGED << start_url, max_pages, base_netloc, seen, queue,
                    used_names, current, files, dir_created, crawler_open,
                    log, fetched, written, result_url, name_in, name_out,
                    title_args, title_out, link_args,
                    link_out, site, discovered >>

SanNext == Sanitize \/ Resanitize

SanSpec == SanInit /\ [][SanNext]_vars

-----------------------------------------------------------------------------
(* Properties of the crawl loop *)

\* the loop is between iterations or over, so every fetch has been handled
Settled == pc \in {"loop", "done"}

\* C1: with max_pages = N the fetch primitive is invoked at most N times, and
\* once len(seen) has reached N no step removes a URL from the queue or
\* passes one to the fetch primitive.
C1_FetchesWithinCap ==
    /\ [](\A n \in max_pages : Len(fetched) <= n)
    /\ [][(\E n \in max_pages : Cardinality(seen) >= n)
            => (fetched' = fetched /\ Len(queue') >= Len(queue))]_vars

\* C1 witness: the run ended at a cap of one page, after one fetch, with
\* URLs still waiting in the queue
C1_Witness ==
    /\ pc = "done"
    /\ max_pages = {1}
    /\ Len(fetched) = 1
    /\ queue # << >>

\* C2: no two pages written in one run get the same filename.
C2_FilenamesDistinct ==
    \A i, j \in 1..Len(written) :
        i # j => written[i].filename # written[j].filename

\* C3: no URL is passed to the fetch primitive twice, compared without
\* fragments.
C3_FetchedOnce ==
    \A i, j \in 1..Len(fetched) :
        i # j => Urldefrag(fetched[i]) # Urldefrag(fetched[j])

\* C3 witness: the URL being fetched was enqueued by links more than once
\* before its first dequeue, so a second entry for it is still pending
C3_Witness ==
    /\ pc = "await"
    /\ Len(fetched) >= 2
    /\ \E i \in 1..Len(queue) : queue[i] = current

\* C4: every URL link extraction appends to the queue has scheme http or
\* https and the start URL's netloc, and every URL passed to the fetch
\* primitive has the start URL's netloc.
C4_SameHostOnly ==
    /\ [][pc = "links" =>
            \A i \in (Len(queue) + 1)..Len(queue') :
                /\ queue'[i].scheme \in {"http", "https"}
                /\ queue'[i].netloc = start_url.netloc]_vars
    /\ [](\A i \in 1..Len(fetched) : fetched[i].netloc = start_url.netloc)

\* C4 witness: a page that redirected to another host has been processed and
\* its links put a URL in the queue, which was then fetched
C4_Witness ==
    /\ pc = "await"
    /\ Len(fetched) = 2
    /\ result_url.netloc = "b.com"

\* C5: a failed fetch writes no file, appends no link, leaves the registry
\* alone, prints exactly one line naming the URL, keeps the URL in seen and
\* hands control back to the loop; each failed URL was fetched exactly once,
\* and a run whose only fetch failed ends normally with no file and one line.
C5_FailureSkipsPage ==
    /\ [][(pc = "await" /\ pc' # "links") =>
            /\ pc' = "loop"
            /\ files' = files
            /\ written' = written
            /\ queue' = queue
            /\ used_names' = used_names
            /\ seen' = seen
            /\ current \in seen
            /\ fetched' = fetched
            /\ Len(log') = Len(log) + 1
            /\ log'[Len(log')].url = current]_vars
    /\ [](\A k \in 1..Len(log) :
            Cardinality({i \in 1..Len(fetched) : fetched[i] = log[k].url}) = 1)
    /\ [](Settled => Len(log) + Len(written) = Len(fetched))
    /\ []((Settled /\ Len(fetched) = 1 /\ Len(log) = 1 /\ queue = << >>)
            => (pc = "done" \/ ENABLED LoopEnd) /\ files = EmptyDict)

\* C5 witness: the second fetch of a run failed and a third URL was fetched
\* after it, and the run ended
C5_Witness ==
    /\ pc = "done"
    /\ Len(fetched) = 3
    /\ Len(log) = 1
    /\ log[1].url = fetched[2]
    /\ Len(written) = 2

\* C6: a start URL without a host raises before any I/O: no directory is
\* made, the crawler is not acquired, nothing is fetched or written.
C6_InvalidStartNoIO ==
    start_url.netloc = "" =>
        /\ pc \in {"start", "raised"}
        /\ ~dir_created
        /\ ~crawler_open
        /\ fetched = << >>
        /\ files = EmptyDict
        /\ log = << >>

\* C6 witness: crawl_site has raised
C6_Witness == pc = "raised" /\ start_url.netloc = ""

\* C7 as stated: the queue never holds two entries for the same
\* fragment-stripped URL.
C7_NoDuplicatePending ==
    \A i, j \in 1..Len(queue) :
        i # j => Urldefrag(queue[i]) # Urldefrag(queue[j])

\* C7 amended: entries of the queue for the same fragment-stripped URL are
\* the same string (the queue may hold it more than once), and every entry
\* has the start URL's netloc.
C7_PendingEntriesCollapse ==
    /\ \A i, j \in 1..Len(queue) :
          Urldefrag(queue[i]) = Urldefrag(queue[j]) => queue[i] = queue[j]
    /\ \A i \in 1..Len(queue) : queue[i].netloc = start_url.netloc

\* C7 witness: after the seed page is processed the queue holds two entries,
\* both the same fragment-free URL
C7_Witness ==
    /\ pc = "loop"
    /\ Len(fetched) = 1
    /\ Len(queue) = 2
    /\ queue[1] = queue[2]
    /\ queue[1].fragment = ""

\* C9: at the end of a run every written page has its own file holding its
\* own Markdown body.
C9_OneFilePerPage ==
    pc = "done" =>
        /\ Cardinality(DOMAIN files) = Len(written)
        /\ \A i \in 1..Len(written) : files[written[i].filename] = written[i].md

\* C10: every URL in seen is fragment-free, so no two members of seen differ
\* only by fragment.
C10_SeenFragmentFree ==
    /\ \A u \in seen : u.fragment = ""
    /\ \A u, v \in seen : Urldefrag(u) = Urldefrag(v) => u = v

\* C10 witness: the start URL was given with a fragment and has been visited
C10_Witness ==
    /\ start_url.fragment # ""
    /\ Cardinality(seen) >= 2

-----------------------------------------------------------------------------
(* Properties of _sanitize_filename *)

\* C8: sanitizing a sanitized name returns it unchanged.
C8_SanitizeIdempotent == pc = "twice" => name_again = name_out

-----------------------------------------------------------------------------
(* _extract_title on its own *)

\* metadata: None, no title, an empty title, H, and a single space
TitleMetadatas == { NoMeta, Meta(<< >>), Meta(TitleH), Meta(<< " " >>) }

\* html: empty, without a <title>, and with the inner texts "", " \n",
\* "&#32;" and " T&amp; \nU "
TitleHtmls ==
    { EmptyHtml, HtmlNoTitle, HtmlTitle(<< >>), HtmlTitle(<< " ", "\n" >>),
      HtmlTitle(<< "&#32;" >>),
      HtmlTitle(<< " ", "T", "&amp;", " ", "\n", "U", " " >>) }

\* result.url: http://a.com followed by nothing, /, /a, /a/, /a/b or /a//,
\* with and without the fragment s
TitleUrls ==
    { Url("http", "a.com", p, f) :
        p \in { << >>, << "/" >>, PathA, PathA \o << "/" >>,
                PathA \o PathB, PathA \o << "/", "/" >> },
        f \in { "", "s" } }

TitleInit ==
    /\ pc = "pure"
    /\ title_args \in [metadata : TitleMetadatas, html : TitleHtmls,
                       url : TitleUrls]
    /\ title_out = << >>
    /\ name_in = << >>
    /\ name_out = << >>
    /\ name_again = << >>
    /\ link_args = NoLinkArgs
    /\ link_out = << >>
    /\ site = NoSite
    /\ discovered = << >>
    /\ start_url = NoUrl
    /\ max_pages = {}
    /\ base_netloc = ""
    /\ seen = {}
    /\ queue = << >>
    /\ used_names = EmptyDict
    /\ current = NoUrl
    /\ files = EmptyDict
    /\ dir_created = FALSE
    /\ crawler_open = FALSE
    /\ log = << >>
    /\ fetched = << >>
    /\ written = << >>
    /\ result_url = NoUrl

\* title = _extract_title(result.metadata, result.html, result.url)
TitleCall ==
    /\ pc = "pure"
    /\ title_out' = ExtractTitle(title_args.metadata, title_args.html,
                                 title_args.url)
    /\ pc' = "titled"
    /\ UNCHANGED << start_url, max_pages, base_netloc, seen, queue,
                    used_names, current, files, dir_created, crawler_open,
                    log, fetched, written, result_url, name_in, name_out,
                    name_again, title_args, link_args, link_out, site,
                    discovered >>

TitleNext == TitleCall

TitleSpec == TitleInit /\ [][TitleNext]_vars

-----------------------------------------------------------------------------
(* Lines 86-99 on their own: the links of one fetched page *)

\* the pages of a.com whose links are extracted: http://a.com, http://a.com/a
LinkPages ==
    { Url("http", "a.com", << >>, ""), Url("http", "a.com", PathA, "") }

\* the fragment-free URLs of a.com that seen may hold
LinkSeenUrls == LinkPages \cup { Url("http", "a.com", PathB, "") }

\* the queue, seen with the page in it, result.url and internal_links
LinkArgs ==
    { [queue |-> q, seen |-> v \cup { page }, url |-> u, links |-> l] :
        q \in { << >>, << Url("http", "a.com", PathB, "") >> },
        v \in SUBSET LinkSeenUrls, page \in LinkPages,
        u \in UNION { ResultUrls(x) : x \in LinkPages }, l \in LinkLists }

LinkInit ==
    /\ pc = "pure"
    /\ link_args \in LinkArgs
    /\ link_out = << >>
    /\ base_netloc = "a.com"
    /\ title_args = NoTitleArgs
    /\ title_out = << >>
    /\ name_in = << >>
    /\ name_out = << >>
    /\ name_again = << >>
    /\ site = NoSite
    /\ discovered = << >>
    /\ start_url = NoUrl
    /\ max_pages = {}
    /\ seen = {}
    /\ queue = << >>
    /\ used_names = EmptyDict
    /\ current = NoUrl
    /\ files = EmptyDict
    /\ dir_created = FALSE
    /\ crawler_open = FALSE
    /\ log = << >>
    /\ fetched = << >>
    /\ written = << >>
    /\ result_url = NoUrl

\* the for loop of lines 87-99
LinkCall ==
    /\ pc = "pure"
    /\ link_out' = EnqueueLinks(link_args.queue, link_args.seen, base_netloc,
                                link_args.url, link_args.links)
    /\ pc' = "linked"
    /\ UNCHANGED << start_url, max_pages, base_netloc, seen, queue,
                    used_names, current, files, dir_created, crawler_open,
                    log, fetched, written, result_url, name_in, name_out,
                    name_again, title_args, title_out, link_args, site,
                    discovered >>

LinkNext == LinkCall

LinkSpec == LinkInit /\ [][LinkNext]_vars

-----------------------------------------------------------------------------
(* crawl_site on a fixed site whose every fetch succeeds *)

PathC == << "/", "c" >>

\* http://a.com, the start URL, and the pages /a, /b and /c
SiteRoot == Url("http", "a.com", << >>, "")
SitePages ==
    { SiteRoot, Url("http", "a.com", PathA, ""),
      Url("http", "a.com", PathB, ""), Url("http", "a.com", PathC, "") }

\* the links a page may report: http://a.com/a, b and http://a.com/c#s
SiteHrefs ==
    { Url("http", "a.com", PathA, ""), Url("", "", << "b" >>, ""),
      Url("http", "a.com", PathC, "s") }

\* lists of at most MaxLinks different links
SiteLinkLists ==
    { l \in SeqsUpTo(SiteHrefs, MaxLinks) :
        \A i, j \in 1..Len(l) : i # j => l[i] # l[j] }

\* the sites: what each page links to, no page linking to itself
Sites ==
    { f \in [SitePages -> SiteLinkLists] :
        \A u \in SitePages : \A i \in 1..Len(f[u]) :
            Urldefrag(Urljoin(u, f[u][i])) # u }

\* None, or a cap that lets more than the start page through
SiteMaxPagesArgs == { {}, { MaxPagesArg + 1 } }

SiteInit ==
    /\ pc = "start"
    /\ start_url = SiteRoot
    /\ max_pages \in SiteMaxPagesArgs
    /\ site \in Sites
    /\ base_netloc = ""
    /\ seen = {}
    /\ queue = << >>
    /\ used_names = EmptyDict
    /\ current = NoUrl
    /\ files = EmptyDict
    /\ dir_created = FALSE
    /\ crawler_open = FALSE
    /\ log = << >>
    /\ fetched = << >>
    /\ written = << >>
    /\ result_url = NoUrl
    /\ name_in = << >>
    /\ name_out = << >>
    /\ name_again = << >>
    /\ title_args = NoTitleArgs
    /\ title_out = << >>
    /\ link_args = NoLinkArgs
    /\ link_out = << >>
    /\ discovered = << >>

\* lines 75-84 for the page of the site: no redirect, no metadata, no HTML
\* and no Markdown
SiteFetchSucceeded ==
    FetchSucceededWith({ current }, { NoMeta }, { EmptyHtml }, { MdNone })

\* lines 86-99 for the links the site gives the page
SiteExtractLinks == ExtractLinksFrom({ site[current] })

SiteNext ==
    \/ Begin
    \/ LoopEnd
    \/ CapBreak
    \/ PopSeen
    \/ PopFetch
    \/ SiteFetchSucceeded
    \/ SiteExtractLinks

SiteSpec == SiteInit /\ [][SiteNext]_vars

-----------------------------------------------------------------------------
(* Further properties of the crawl loop *)

\* the place of x in a sequence that holds it
IndexOf(seq, x) == CHOOSE i \in 1..Len(seq) : seq[i] = x

Holds(seq, x) == \E i \in 1..Len(seq) : seq[i] = x

\* C12: the k-th written page of a base name b is b.md for k = 1 and b-k.md
\* for k >= 2, and the registry count of b is the number of pages written
\* under b.
C12_KthPageName ==
    LET Digits(k) == CASE k = 2 -> << "2" >> [] k = 3 -> << "3" >>
                       [] k = 4 -> << "4" >> [] OTHER -> << "?" >>
        Pages(b, n) == { j \in 1..n : written[j].base_name = b }
    IN  /\ \A i \in 1..Len(written) :
              LET b == written[i].base_name
                  k == Cardinality(Pages(b, i))
              IN  written[i].filename =
                     IF k = 1 THEN b \o << ".", "m", "d" >>
                     ELSE b \o << "-" >> \o Digits(k) \o << ".", "m", "d" >>
        /\ DOMAIN used_names = { written[i].base_name : i \in 1..Len(written) }
        /\ \A b \in DOMAIN used_names :
              used_names[b] = Cardinality(Pages(b, Len(written)))

\* C12 witness: three pages were written under one base name
C12_Witness ==
    /\ Len(written) = 3
    /\ \A i \in 1..3 : written[i].base_name = << "H" >>

\* C13: of two fetched URLs, the one first appended to the queue earlier is
\* fetched earlier.
C13_FifoOrder ==
    \A i, j \in 1..Len(discovered) :
        LET u == Urldefrag(discovered[i])
            v == Urldefrag(discovered[j])
        IN  (i < j /\ Holds(fetched, u) /\ Holds(fetched, v))
                => IndexOf(fetched, u) < IndexOf(fetched, v)

\* C13 witness: three URLs were discovered and all three fetched, and the
\* queue still holds a duplicate entry
C13_Witness ==
    /\ pc = "loop"
    /\ Len(discovered) = 3
    /\ Len(fetched) = 3
    /\ queue # << >>

C16_SeedStrippedAndSeen ==
    (pc = "loop" /\ fetched = << >>) =>
        /\ queue = << Urldefrag(start_url) >>
        /\ Urldefrag(start_url) \in seen

\* C16 amended: before the first dequeue the queue holds the start URL as
\* given and seen is empty; the first dequeue strips the fragment, adds the
\* stripped URL to seen and fetches it.
C16_SeedAsGiven ==
    /\ (pc = "loop" /\ fetched = << >>) =>
          (queue = << start_url >> /\ seen = {})
    /\ Len(fetched) >= 1 =>
          /\ fetched[1] = [start_url EXCEPT !.fragment = ""]
          /\ fetched[1] \in seen

\* C16 witness: a start URL given with a fragment is being fetched
C16_Witness ==
    /\ pc = "await"
    /\ Len(fetched) = 1
    /\ start_url.fragment # ""

-----------------------------------------------------------------------------
(* Further properties of _sanitize_filename *)

\* C17: the base name is non-empty, at most 120 characters long and free of
\* the characters \ / : * ? " < > |, and an empty or whitespace-only name
\* gives untitled.
C17_BaseNameSafe ==
    pc \in {"once", "twice"} =>
        /\ name_out # << >>
        /\ Len(name_out) <= 120
        /\ \A i \in 1..Len(name_out) :
              name_out[i] \notin {"\\", "/", ":", "*", "?", "\"", "<", ">", "|"}
        /\ (\A i \in 1..Len(name_in) : name_in[i] \in {" ", "\t", "\n"})
              => name_out = << "u", "n", "t", "i", "t", "l", "e", "d" >>

\* C17 witness: a name longer than 120 characters that holds a slash has
\* been sanitized
C17_Witness ==
    /\ pc = "once"
    /\ Len(name_in) > 120
    /\ \E i \in 1..Len(name_in) : name_in[i] = "/"

-----------------------------------------------------------------------------
(* Properties of _extract_title *)

-----------------------------------------------------------------------------
(* Properties of link extraction *)

\* C15: no URL that is in seen when a page's links are extracted is appended
\* to the queue, whether the link carries a fragment or not; the entries the
\* queue already had stay as they were.
C15_SeenNotAppended ==
    pc = "linked" =>
        /\ Len(link_out) >= Len(link_args.queue)
        /\ SubSeq(link_out, 1, Len(link_args.queue)) = link_args.queue
        /\ \A i \in (Len(link_args.queue) + 1)..Len(link_out) :
              /\ link_out[i] \notin link_args.seen
              /\ [link_out[i] EXCEPT !.fragment = ""] \notin link_args.seen

\* C15 witness: the page http://a.com/a, already in seen, reported a link to
\* http://a.com/a#s and one to http://a.com/b, and only the second was
\* appended
C15_Witness ==
    /\ pc = "linked"
    /\ link_args.url = Url("http", "a.com", PathA, "")
    /\ link_args.url \in link_args.seen
    /\ link_args.links = << Url("http", "a.com", PathA, "s"),
                            Url("http", "a.com", PathB, "") >>
    /\ link_args.queue = << >>
    /\ link_out = << Url("http", "a.com", PathB, "") >>

-----------------------------------------------------------------------------
(* Properties of the traversal of a fixed site *)

\* the pages the links of page u lead to
LinkTargets(u) ==
    { t \in SitePages :
        \E i \in 1..Len(site[u]) :
            LET abs == Urljoin(u, site[u][i]) IN
            /\ abs.scheme = t.scheme /\ abs.netloc = t.netloc
            /\ abs.path = t.path }

\* Levels(k)[d + 1], d \in 0..k: the pages at most d links away from the
\* start URL
RECURSIVE Levels(_)
Levels(k) ==
    IF k = 0 THEN << { SiteRoot } >>
    ELSE LET prev == Levels(k - 1)
             near == prev[k]
         IN  Append(prev, near \cup UNION { LinkTargets(u) : u \in near })

\* C18: on a site whose fetches all succeed the fetched URLs come in
\* non-decreasing link distance from the start URL, every page not fetched
\* is at least as far as every fetched one, and a run ends with the cap's
\* number of pages fetched (or all reachable pages, if fewer).
C18_BreadthFirst ==
    LET far == Cardinality(SitePages)
        levels == Levels(far)
        reach == levels[far + 1]
        dist == [u \in reach |->
                    CHOOSE d \in 0..far :
                        u \in levels[d + 1] /\ (d = 0 \/ u \notin levels[d])]
        n == Len(fetched)
    IN  pc # "start" =>
            /\ \A i \in 1..n : fetched[i] \in reach
            /\ \A i \in 1..(n - 1) : dist[fetched[i]] <= dist[fetched[i + 1]]
            /\ \A u \in reach :
                  (\A i \in 1..n : fetched[i] # u) =>
                      \A i \in 1..n : dist[fetched[i]] <= dist[u]
            /\ pc = "done" =>
                  \/ n = Cardinality(reach)
                  \/ max_pages = { n } /\ n < Cardinality(reach)

\* C18 witness: the fourth page fetched is two links away, and the queue
\* still holds a duplicate entry for it
C18_Witness ==
    /\ pc = "loop"
    /\ Len(fetched) = 4
    /\ fetched[4] \notin Levels(1)[2]
    /\ queue # << >>

====
